---------------------------- MODULE Spec2Model ----------------------------
(***************************************************************************)
(* Coffee Growth Tracker API (src/main.py, src/schemas.py).                *)
(*                                                                         *)
(* The state is the document store (three collections), the identifier     *)
(* source of the store, and the last request with its response.  Every     *)
(* route handler of main.py is one action.  Request validation is the      *)
(* pydantic schema of schemas.py, applied before the handler body runs.    *)
(*                                                                         *)
(* Representation                                                          *)
(*   text that is parsed (plant_id)  a sequence of one-character strings   *)
(*   other text                      a TLA+ string                         *)
(*   Optional[T]                     <<>> for None, <<v>> for a value v    *)
(*   dict / document                 a function from key strings; a key    *)
(*                                   the dict lacks is outside its DOMAIN  *)
(*   float                           an integer count of the smallest step,*)
(*                                   kept to Precision significant bits by *)
(*                                   round-to-nearest-even after every     *)
(*                                   arithmetic operation                  *)
(*   date / datetime                 an integer; datetime.min is 0         *)
(***************************************************************************)
EXTENDS Integers, Sequences, FiniteSets, TLC

VARIABLES plant, growthlog, sensorreading, nextOid, created, req, resp

vars == <<plant, growthlog, sensorreading, nextOid, created, req, resp>>

(***************************************************************************)
(* Bounds of the model.                                                    *)
(***************************************************************************)
\* documents the general specification persists
MaxDocs == 2
\* documents the statistics specification persists
MaxStatsDocs == 3
\* readings the latest-readings specification holds in a small store
MaxLatestDocs == 3
\* readings the latest-readings specification adds to its large store
MaxNewReadings == 1
\* readings of the large initial store of the latest-readings specification
BulkReadings == 200
\* significant bits of the model's floating-point numbers (binary64 has 53)
Precision == 3

(***************************************************************************)
(* Small helpers.                                                          *)
(***************************************************************************)
None == <<>>

Some(v) == <<v>>

Min2(a, b) == IF a <= b THEN a ELSE b

Max2(a, b) == IF a >= b THEN a ELSE b

SetMax(S) == CHOOSE x \in S : \A y \in S : y <= x

SetMin(S) == CHOOSE x \in S : \A y \in S : x <= y

Range(s) == {s[i] : i \in 1..Len(s)}

Abs(x) == IF x < 0 THEN -x ELSE x

\* dict.get(key, default)
Get(d, key, default) == IF key \in DOMAIN d THEN d[key] ELSE default

(***************************************************************************)
(* Floating point: round a rational num/den (den > 0) to the nearest       *)
(* number with Precision significant bits, ties to the even significand.   *)
(***************************************************************************)
RECURSIVE Pow2(_)
Pow2(n) == IF n = 0 THEN 1 ELSE 2 * Pow2(n - 1)

\* the spacing of representable numbers around n/d
RECURSIVE Ulp(_, _, _)
Ulp(n, d, u) == IF n < Pow2(Precision) * u * d THEN u ELSE Ulp(n, d, 2 * u)

RoundHalfEven(n, d) ==
    LET q == n \div d
        r == n % d
    IN  IF 2 * r > d \/ (2 * r = d /\ q % 2 = 1) THEN q + 1 ELSE q

FRound(num, den) ==
    LET n == Abs(num)
        u == Ulp(n, den, 1)
        m == RoundHalfEven(n, den * u) * u
    IN  IF num < 0 THEN -m ELSE m

\* float + float
FAdd(a, b) == FRound(a + b, 1)

\* float / int
FDiv(a, n) == FRound(a, n)

\* sum(values): start at 0, add left to right
RECURSIVE PySum(_)
PySum(values) ==
    IF values = <<>> THEN 0
    ELSE FAdd(PySum(SubSeq(values, 1, Len(values) - 1)), values[Len(values)])

(***************************************************************************)
(* Identifiers.  The store assigns ObjectIds; str(ObjectId) is 24 hex      *)
(* digits, and ObjectId(text) accepts exactly the texts of 24 hex digits.  *)
(***************************************************************************)
OidHexLen == 24

HexDigits == <<"0", "1", "2", "3", "4", "5", "6", "7",
               "8", "9", "a", "b", "c", "d", "e", "f">>

HexChars == Range(HexDigits) \cup {"A", "B", "C", "D", "E", "F"}

RECURSIVE HexOf(_, _)
HexOf(n, width) ==
    IF width = 0 THEN <<>>
    ELSE Append(HexOf(n \div 16, width - 1), HexDigits[(n % 16) + 1])

\* str(oid)
OidStr(oid) == HexOf(oid, OidHexLen)

\* ObjectId(text) does not raise
ParsesAsObjectIdAlways(text) == TRUE

ParsesAsObjectId(text) ==
    Len(text) = OidHexLen /\ \A i \in 1..Len(text) : text[i] \in HexChars

\* to_str_id without the rename
to_str_id_keep(doc) == doc

to_str_id(doc) ==
    IF "_id" \in DOMAIN doc
    THEN [k \in (DOMAIN doc \ {"_id"}) \cup {"id"} |->
            IF k = "id" THEN OidStr(doc["_id"]) ELSE doc[k]]
    ELSE doc

MapToStrId(docs) == [i \in 1..Len(docs) |-> to_str_id(docs[i])]

(***************************************************************************)
(* Schemas (schemas.py).  A request body is a function from the fields the *)
(* client sent.  Validate* is pydantic's validation of the body,           *)
(* model_dump* the dict the handler persists.                              *)
(***************************************************************************)
PlantDefaults ==
    [variety |-> None, location |-> None, notes |-> None]

GrowthLogDefaults ==
    [height_cm |-> None, leaves_count |-> None, stage |-> None, notes |-> None]

SensorReadingDefaults(now) ==
    [recorded_at |-> now, temperature_c |-> None,
     humidity_pct |-> None, soil_moisture_pct |-> None]

\* Optional[...] = Field(None, ge=lo): absent, null, or a value >= lo
OptGe(body, key, lo) ==
    key \in DOMAIN body => (body[key] = None \/ body[key][1] >= lo)

OptLe(body, key, hi) ==
    key \in DOMAIN body => (body[key] = None \/ body[key][1] <= hi)

ValidatePlant(body) ==
    /\ "name" \in DOMAIN body
    /\ "sow_date" \in DOMAIN body

ValidateGrowthLogNoRange(body) ==
    /\ "plant_id" \in DOMAIN body
    /\ "observed_at" \in DOMAIN body
    /\ OptGe(body, "leaves_count", 0)

ValidateGrowthLog(body) ==
    /\ "plant_id" \in DOMAIN body
    /\ "observed_at" \in DOMAIN body
    /\ OptGe(body, "height_cm", 0)
    /\ OptGe(body, "leaves_count", 0)

ValidateSensorReading(body) ==
    /\ "plant_id" \in DOMAIN body
    /\ OptGe(body, "humidity_pct", 0)
    /\ OptLe(body, "humidity_pct", 100)
    /\ OptGe(body, "soil_moisture_pct", 0)
    /\ OptLe(body, "soil_moisture_pct", 100)

\* model_dump(): every declared field, the default where the body has none
ModelDump(body, defaults) ==
    [k \in DOMAIN body \cup DOMAIN defaults |->
        IF k \in DOMAIN body THEN body[k] ELSE defaults[k]]

(***************************************************************************)
(* Document store adapter (database.py: create_document, get_documents).   *)
(***************************************************************************)
\* the document as persisted: the data and its fresh _id
NewDocumentAt(oid, data) ==
    [k \in DOMAIN data \cup {"_id"} |-> IF k = "_id" THEN oid ELSE data[k]]

NewDocument(data) == NewDocumentAt(nextOid, data)

Matches(doc, filt) ==
    \A k \in DOMAIN filt : k \in DOMAIN doc /\ doc[k] = filt[k]

\* get_documents(collection, filter): the matching documents, in stored order
get_documents(collection, filt) ==
    LET Test(doc) == Matches(doc, filt)
    IN  SelectSeq(collection, Test)

PlantIdFilter(plant_id) == [plant_id |-> plant_id]

NoFilter == <<>>

DocCount == Len(plant) + Len(growthlog) + Len(sensorreading)

(***************************************************************************)
(* Responses.                                                              *)
(***************************************************************************)
Ok(body) == [status |-> 200, body |-> body]

HttpError(status, detail) == [status |-> status, body |-> [detail |-> detail]]

ValidationRejected == HttpError(422, "validation error")

StoreFailed == HttpError(500, "store unavailable")

(***************************************************************************)
(* Initial state: an empty store.                                          *)
(***************************************************************************)
FirstOid == 1

Init ==
    /\ plant = <<>>
    /\ growthlog = <<>>
    /\ sensorreading = <<>>
    /\ nextOid = FirstOid
    /\ created = {}
    /\ req = [op |-> "none"]
    /\ resp = [status |-> 0, body |-> None]

(***************************************************************************)
(* Handlers (main.py).  store_ok says whether the store answers the        *)
(* handler's calls; when it does not, create_document / get_documents      *)
(* raise and the handler's except clause answers 500.                      *)
(***************************************************************************)
Request(op, args, ok) == [op |-> op, args |-> args, store_ok |-> ok]

Answer(r) ==
    /\ resp' = r
    /\ UNCHANGED <<plant, growthlog, sensorreading, nextOid, created>>

\* GET /
read_root ==
    /\ req' = Request("read_root", None, TRUE)
    /\ Answer(Ok([message |-> "Coffee Growth Tracker Backend Running"]))

\* db.list_collection_names()[:10]
CollectionNames ==
    LET names == (IF plant # <<>> THEN <<"plant">> ELSE <<>>)
                 \o (IF growthlog # <<>> THEN <<"growthlog">> ELSE <<>>)
                 \o (IF sensorreading # <<>> THEN <<"sensorreading">> ELSE <<>>)
    IN  SubSeq(names, 1, Min2(10, Len(names)))

\* GET /test
test_database(db_set, ok) ==
    /\ req' = Request("test_database", [db_set |-> db_set], ok)
    /\ Answer(Ok(
         IF ~db_set
         THEN [database |-> "Available but not initialized", collections |-> <<>>]
         ELSE IF ok
         THEN [database |-> "Connected & Working", collections |-> CollectionNames]
         ELSE [database |-> "Connected but Error", collections |-> <<>>]))

\* POST /plants that replaces a plant of the same name instead of adding one
create_plant_upsert(body, ok) ==
    /\ req' = Request("create_plant", [body |-> body], ok)
    /\ IF ~ValidatePlant(body) THEN Answer(ValidationRejected)
       ELSE IF ~ok THEN Answer(StoreFailed)
       ELSE LET doc == NewDocument(ModelDump(body, PlantDefaults))
                Other(d) == d["name"] # doc["name"]
            IN  /\ plant' = Append(SelectSeq(plant, Other), doc)
                /\ nextOid' = nextOid + 1
                /\ created' = created \cup {OidStr(doc["_id"])}
                /\ resp' = Ok([id |-> OidStr(doc["_id"])])
                /\ UNCHANGED <<growthlog, sensorreading>>

\* POST /plants
create_plant(body, ok) ==
    /\ req' = Request("create_plant", [body |-> body], ok)
    /\ IF ~ValidatePlant(body) THEN Answer(ValidationRejected)
       ELSE IF ~ok THEN Answer(StoreFailed)
       ELSE LET doc == NewDocument(ModelDump(body, PlantDefaults))
            IN  /\ plant' = Append(plant, doc)
                /\ nextOid' = nextOid + 1
                /\ created' = created \cup {OidStr(doc["_id"])}
                /\ resp' = Ok([id |-> OidStr(doc["_id"])])
                /\ UNCHANGED <<growthlog, sensorreading>>

\* GET /plants
list_plants(ok) ==
    /\ req' = Request("list_plants", None, ok)
    /\ Answer(IF ~ok THEN StoreFailed
              ELSE Ok(MapToStrId(get_documents(plant, NoFilter))))

\* POST /growth-logs
create_growth_log(body, ok) ==
    /\ req' = Request("create_growth_log", [body |-> body], ok)
    /\ IF ~ValidateGrowthLog(body) THEN Answer(ValidationRejected)
       ELSE IF ~ParsesAsObjectId(body["plant_id"])
       THEN Answer(HttpError(400, "Invalid plant_id format"))
       ELSE IF ~ok THEN Answer(StoreFailed)
       ELSE LET doc == NewDocument(ModelDump(body, GrowthLogDefaults))
            IN  /\ growthlog' = Append(growthlog, doc)
                /\ nextOid' = nextOid + 1
                /\ resp' = Ok([id |-> OidStr(doc["_id"])])
                /\ UNCHANGED <<plant, sensorreading, created>>

\* `if plant_id` of a query parameter that is None or a text
Truthy(opt) == opt # None /\ opt[1] # <<>>

\* GET /growth-logs
list_growth_logs(plant_id, ok) ==
    /\ req' = Request("list_growth_logs", [plant_id |-> plant_id], ok)
    /\ LET filt == IF Truthy(plant_id) THEN PlantIdFilter(plant_id[1]) ELSE NoFilter
       IN  Answer(IF ~ok THEN StoreFailed
                  ELSE Ok(MapToStrId(get_documents(growthlog, filt))))

\* POST /sensor-readings; now is the clock that default_factory reads
ingest_sensor_reading(body, now, ok) ==
    /\ req' = Request("ingest_sensor_reading", [body |-> body], ok)
    /\ IF ~ValidateSensorReading(body) THEN Answer(ValidationRejected)
       ELSE IF ~ParsesAsObjectId(body["plant_id"])
       THEN Answer(HttpError(400, "Invalid plant_id format"))
       ELSE IF ~ok THEN Answer(StoreFailed)
       ELSE LET doc == NewDocument(ModelDump(body, SensorReadingDefaults(now)))
            IN  /\ sensorreading' = Append(sensorreading, doc)
                /\ nextOid' = nextOid + 1
                /\ resp' = Ok([id |-> OidStr(doc["_id"])])
                /\ UNCHANGED <<plant, growthlog, created>>

(***************************************************************************)
(* Latest readings.                                                        *)
(***************************************************************************)
DatetimeMin == 0

MaxLimit == 200

\* key=lambda d: d.get("recorded_at", datetime.min)
RecordedKey(d) == Get(d, "recorded_at", DatetimeMin)

\* the place of each document after a stable sort by key, descending:
\* behind every larger key and every earlier occurrence of the same key
RanksDesc(key) ==
    [j \in DOMAIN key |->
        Cardinality({i \in DOMAIN key :
            key[i] > key[j] \/ (key[i] = key[j] /\ i <= j)})]

PlaceByRank(docs, rank) ==
    [k \in 1..Len(docs) |-> docs[CHOOSE j \in 1..Len(docs) : rank[j] = k]]

\* the documents in stored order: the sort left out
NotSorted(docs) == docs

\* sorted(docs, key=RecordedKey, reverse=True).  The sort is stable, so the
\* ranks decide its result.  (key and rank are bound by a one-element set so
\* that each is computed once.)
SortedByRecordedDesc(docs) ==
    CHOOSE s \in UNION {{PlaceByRank(docs, rank) : rank \in {RanksDesc(key)}} :
                           key \in {[j \in 1..Len(docs) |-> RecordedKey(docs[j])]}} : TRUE

\* max(1, limit): the clamp without its upper end
ClampNoCeiling(limit) == Max2(1, limit)

\* max(1, min(limit, 200))
Clamp(limit) == Max2(1, Min2(limit, MaxLimit))

\* s[:k]
PySlicePrefix(s, k) ==
    IF k >= 0 THEN SubSeq(s, 1, Min2(k, Len(s)))
    ELSE SubSeq(s, 1, Max2(0, Len(s) + k))

\* GET /sensor-readings/latest
latest_sensor_readings(plant_id, limit, ok) ==
    /\ req' = Request("latest_sensor_readings",
                      [plant_id |-> plant_id, limit |-> limit], ok)
    /\ IF ~ok THEN Answer(StoreFailed)
       ELSE \E docs \in {get_documents(sensorreading, PlantIdFilter(plant_id))} :
            \E docs_sorted \in {SortedByRecordedDesc(docs)} :
               Answer(Ok(MapToStrId(PySlicePrefix(docs_sorted, Clamp(limit)))))

(***************************************************************************)
(* Statistics.                                                             *)
(***************************************************************************)
\* [d.get(key) for d in docs if d.get(key) is not None]
RECURSIVE PresentValues(_, _)
PresentValues(docs, key) ==
    IF docs = <<>> THEN <<>>
    ELSE LET rest == PresentValues(SubSeq(docs, 1, Len(docs) - 1), key)
             v == Get(docs[Len(docs)], key, None)
         IN  IF v # None THEN Append(rest, v[1]) ELSE rest

\* sum(values) / len(values) if values else None
Average(values) ==
    IF values # <<>> THEN Some(FDiv(PySum(values), Len(values))) ELSE None

\* `if s` of an Optional text
TruthyText(s) == s # None /\ s[1] # ""

\* the stages loop: stages[s] = stages.get(s, 0) + 1 for every truthy stage
RECURSIVE StageCounts(_)
StageCounts(logs) ==
    IF logs = <<>> THEN <<>>
    ELSE LET stages == StageCounts(SubSeq(logs, 1, Len(logs) - 1))
             s == Get(logs[Len(logs)], "stage", None)
         IN  IF TruthyText(s)
             THEN [k \in DOMAIN stages \cup {s[1]} |->
                     IF k = s[1] THEN Get(stages, k, 0) + 1 ELSE stages[k]]
             ELSE stages

\* GET /stats/plant
plant_stats(plant_id, ok) ==
    /\ req' = Request("plant_stats", [plant_id |-> plant_id], ok)
    /\ Answer(IF ~ok THEN StoreFailed
              ELSE LET logs == get_documents(growthlog, PlantIdFilter(plant_id))
                       readings == get_documents(sensorreading, PlantIdFilter(plant_id))
                       height_values == PresentValues(logs, "height_cm")
                       temps == PresentValues(readings, "temperature_c")
                       moist == PresentValues(readings, "soil_moisture_pct")
                   IN  Ok([max_height_cm |-> IF height_values # <<>>
                                             THEN Some(SetMax(Range(height_values)))
                                             ELSE None,
                           min_height_cm |-> IF height_values # <<>>
                                             THEN Some(SetMin(Range(height_values)))
                                             ELSE None,
                           avg_height_cm |-> Average(height_values),
                           avg_temperature_c |-> Average(temps),
                           avg_soil_moisture_pct |-> Average(moist),
                           stages_counts |-> StageCounts(logs),
                           logs_count |-> Len(logs),
                           readings_count |-> Len(readings)]))

(***************************************************************************)
(* Request inputs.                                                         *)
(***************************************************************************)
PlantA == OidStr(1)

PlantB == OidStr(2)

\* well formed, and no document ever gets it
GhostId == <<"A", "b", "c", "d", "e", "f", "0", "1", "2", "3", "4", "5",
             "6", "7", "8", "9", "a", "b", "c", "d", "e", "f", "0", "1">>

NotAnId == <<"n", "o", "t", "-", "a", "n", "-", "i", "d">>

\* 24 characters, not all of them hex digits
LongBadId == [i \in 1..OidHexLen |-> IF i = 7 THEN "g" ELSE "0"]

PlantBodies ==
    { [name |-> "Typica", sow_date |-> 1],
      [name |-> "", sow_date |-> 1],
      [sow_date |-> 1],
      [name |-> "Typica"] }

LogBodies ==
    { [plant_id |-> PlantA, observed_at |-> 1, height_cm |-> Some(6),
       stage |-> Some("seed")],
      [plant_id |-> GhostId, observed_at |-> 1],
      [plant_id |-> NotAnId, observed_at |-> 1],
      [plant_id |-> LongBadId, observed_at |-> 1, height_cm |-> Some(0)],
      [plant_id |-> PlantA, observed_at |-> 1, height_cm |-> Some(-1)],
      [plant_id |-> NotAnId, observed_at |-> 1, leaves_count |-> Some(-1)],
      [plant_id |-> PlantA],
      [observed_at |-> 1] }

ReadingBodies ==
    { [plant_id |-> PlantA, recorded_at |-> 2, temperature_c |-> Some(-5),
       humidity_pct |-> Some(100), soil_moisture_pct |-> Some(0)],
      [plant_id |-> GhostId],
      [plant_id |-> NotAnId],
      [plant_id |-> <<>>, recorded_at |-> 2],
      [plant_id |-> PlantA, humidity_pct |-> Some(112)],
      [plant_id |-> PlantA, humidity_pct |-> Some(-1)],
      [plant_id |-> PlantA, soil_moisture_pct |-> Some(112)],
      [plant_id |-> NotAnId, soil_moisture_pct |-> Some(-1)],
      [recorded_at |-> 2] }

ClockValues == {1, 3}

ListFilters == {None, Some(<<>>), Some(PlantA), Some(GhostId)}

QueryPlants == {PlantA, GhostId}

QueryLimits == {0, 1, 20}

(***************************************************************************)
(* The general specification: every route, on a small store.               *)
(***************************************************************************)
Next ==
    \/ read_root
    \/ \E db_set \in BOOLEAN, ok \in BOOLEAN : test_database(db_set, ok)
    \/ \E body \in PlantBodies, ok \in BOOLEAN :
          DocCount < MaxDocs /\ create_plant(body, ok)
    \/ \E ok \in BOOLEAN : list_plants(ok)
    \/ \E body \in LogBodies, ok \in BOOLEAN :
          DocCount < MaxDocs /\ create_growth_log(body, ok)
    \/ \E plant_id \in ListFilters, ok \in BOOLEAN : list_growth_logs(plant_id, ok)
    \/ \E body \in ReadingBodies, now \in ClockValues, ok \in BOOLEAN :
          DocCount < MaxDocs /\ ingest_sensor_reading(body, now, ok)
    \/ \E plant_id \in QueryPlants, limit \in QueryLimits, ok \in BOOLEAN :
          latest_sensor_readings(plant_id, limit, ok)
    \/ \E plant_id \in QueryPlants, ok \in BOOLEAN : plant_stats(plant_id, ok)

Spec == Init /\ [][Next]_vars

(***************************************************************************)
(* The statistics specification: growth logs and readings with and without *)
(* heights, temperatures, moistures and stages, and GET /stats/plant.      *)
(***************************************************************************)
StatsLogBodies ==
    { [plant_id |-> PlantA, observed_at |-> 1, height_cm |-> Some(6),
       stage |-> Some("seed")],
      [plant_id |-> PlantA, observed_at |-> 2, height_cm |-> Some(7),
       stage |-> Some("")],
      [plant_id |-> PlantA, observed_at |-> 2, stage |-> Some("cherry")],
      [plant_id |-> PlantA, observed_at |-> 3, height_cm |-> Some(1)],
      [plant_id |-> PlantB, observed_at |-> 1, height_cm |-> Some(6),
       stage |-> Some("seed")] }

StatsReadingBodies ==
    { [plant_id |-> PlantA, recorded_at |-> 1, temperature_c |-> Some(6)],
      [plant_id |-> PlantA, recorded_at |-> 2, soil_moisture_pct |-> Some(5)],
      [plant_id |-> PlantB, recorded_at |-> 1, temperature_c |-> Some(-7),
       soil_moisture_pct |-> Some(7)] }

StatsPlants == {PlantA, PlantB, GhostId}

NextStats ==
    \/ \E body \in StatsLogBodies :
          DocCount < MaxStatsDocs /\ create_growth_log(body, TRUE)
    \/ \E body \in StatsReadingBodies :
          DocCount < MaxStatsDocs /\ ingest_sensor_reading(body, 1, TRUE)
    \/ \E plant_id \in StatsPlants, ok \in BOOLEAN : plant_stats(plant_id, ok)

SpecStats == Init /\ [][NextStats]_vars

(***************************************************************************)
(* The latest-readings specification.  The sensorreading collection starts *)
(* empty, or with one reading that another writer of the database stored   *)
(* without recorded_at, or with BulkReadings readings of PlantA (the store *)
(* after that many accepted POST /sensor-readings).                        *)
(***************************************************************************)
LegacyReadings ==
    << [_id |-> FirstOid, plant_id |-> PlantA, temperature_c |-> Some(5)] >>

BulkStore ==
    [i \in 1..BulkReadings |->
        NewDocumentAt(FirstOid + i - 1,
                      ModelDump([plant_id |-> PlantA, recorded_at |-> (i % 3) + 1],
                                SensorReadingDefaults(1)))]

InitLatest ==
    /\ plant = <<>>
    /\ growthlog = <<>>
    /\ sensorreading \in {<<>>, LegacyReadings, BulkStore}
    /\ nextOid = FirstOid + Len(sensorreading)
    /\ created = {}
    /\ req = [op |-> "none"]
    /\ resp = [status |-> 0, body |-> None]

LatestReadingBodies ==
    { [plant_id |-> PlantA, recorded_at |-> 1],
      [plant_id |-> PlantA, recorded_at |-> 3],
      [plant_id |-> PlantB, recorded_at |-> 2] }

LatestLimits == {-1, 0, 2, MaxLimit + 1}

LatestPlants == {PlantA, PlantB}

RoomForReading ==
    \/ Len(sensorreading) < MaxLatestDocs
    \/ /\ Len(sensorreading) >= BulkReadings
       /\ Len(sensorreading) < BulkReadings + MaxNewReadings

NextLatest ==
    \/ \E body \in LatestReadingBodies :
          RoomForReading /\ ingest_sensor_reading(body, 1, TRUE)
    \/ \E plant_id \in LatestPlants, limit \in LatestLimits :
          latest_sensor_readings(plant_id, limit, TRUE)

SpecLatest == InitLatest /\ [][NextLatest]_vars

(***************************************************************************)
(* Properties.  What a property says about "the matching documents" is     *)
(* read off the store, not off the handler's own intermediate values.      *)
(***************************************************************************)
\* positions of the documents of a collection that belong to a plant
IndicesOf(collection, plant_id) ==
    {i \in 1..Len(collection) : collection[i]["plant_id"] = plant_id}

\* positions, among idx, of the documents that carry a value under key
Carrying(collection, idx, key) ==
    {i \in idx : Get(collection[i], key, None) # None}

\* the exact (unrounded) sum of the values under key at the positions idx
RECURSIVE ExactSum(_, _, _)
ExactSum(collection, idx, key) ==
    IF idx = {} THEN 0
    ELSE LET i == CHOOSE j \in idx : TRUE
         IN  collection[i][key][1] + ExactSum(collection, idx \ {i}, key)

StatsAnswered == req.op = "plant_stats" /\ resp.status = 200

\* C1: GET /stats/plant answers 200 whenever the store answers; max, min and
\* avg height are the maximum, the minimum and the arithmetic mean (the exact
\* mean, rounded once to a float) of the non-absent heights of the plant's
\* logs; all three are null when no log carries a height; avg_temperature_c
\* and avg_soil_moisture_pct are null when no reading carries the value.
C1_StatsAggregates ==
    (req.op = "plant_stats" /\ req.store_ok) =>
        LET logs == IndicesOf(growthlog, req.args.plant_id)
            readings == IndicesOf(sensorreading, req.args.plant_id)
            withHeight == Carrying(growthlog, logs, "height_cm")
            heights == {growthlog[i]["height_cm"][1] : i \in withHeight}
        IN  /\ resp.status = 200
            /\ withHeight = {} =>
                  /\ resp.body.max_height_cm = None
                  /\ resp.body.min_height_cm = None
                  /\ resp.body.avg_height_cm = None
            /\ withHeight # {} =>
                  /\ resp.body.max_height_cm = Some(SetMax(heights))
                  /\ resp.body.min_height_cm = Some(SetMin(heights))
                  /\ resp.body.avg_height_cm =
                        Some(FRound(ExactSum(growthlog, withHeight, "height_cm"),
                                    Cardinality(withHeight)))
            /\ Carrying(sensorreading, readings, "temperature_c") = {} =>
                  resp.body.avg_temperature_c = None
            /\ Carrying(sensorreading, readings, "soil_moisture_pct") = {} =>
                  resp.body.avg_soil_moisture_pct = None

\* C1, the part that does not rest on the float sum: status, max, min, and
\* which aggregates are null.
StatsExtremesAndNulls ==
    (req.op = "plant_stats" /\ req.store_ok) =>
        LET logs == IndicesOf(growthlog, req.args.plant_id)
            readings == IndicesOf(sensorreading, req.args.plant_id)
            withHeight == Carrying(growthlog, logs, "height_cm")
            heights == {growthlog[i]["height_cm"][1] : i \in withHeight}
        IN  /\ resp.status = 200
            /\ (withHeight = {}) = (resp.body.avg_height_cm = None)
            /\ resp.body.max_height_cm =
                  (IF withHeight = {} THEN None ELSE Some(SetMax(heights)))
            /\ resp.body.min_height_cm =
                  (IF withHeight = {} THEN None ELSE Some(SetMin(heights)))
            /\ (Carrying(sensorreading, readings, "temperature_c") = {})
                  = (resp.body.avg_temperature_c = None)
            /\ (Carrying(sensorreading, readings, "soil_moisture_pct") = {})
                  = (resp.body.avg_soil_moisture_pct = None)
            /\ resp.body.logs_count = Cardinality(logs)
            /\ resp.body.readings_count = Cardinality(readings)

\* C2: when the plant's logs carry at least one height, the answer of
\* GET /stats/plant has min_height_cm <= avg_height_cm <= max_height_cm.
C2_MinAvgMax ==
    (StatsAnswered
       /\ Carrying(growthlog, IndicesOf(growthlog, req.args.plant_id), "height_cm") # {})
    => /\ resp.body.min_height_cm[1] <= resp.body.avg_height_cm[1]
       /\ resp.body.avg_height_cm[1] <= resp.body.max_height_cm[1]

\* C2 without the float sum: min_height_cm <= max_height_cm.
StatsMinLeMax ==
    (StatsAnswered /\ resp.body.max_height_cm # None)
    => resp.body.min_height_cm[1] <= resp.body.max_height_cm[1]

RECURSIVE SumOfCounts(_)
SumOfCounts(counts) ==
    IF DOMAIN counts = {} THEN 0
    ELSE LET k == CHOOSE x \in DOMAIN counts : TRUE
         IN  counts[k] + SumOfCounts([x \in DOMAIN counts \ {k} |-> counts[x]])

\* C10: stages_counts has exactly the distinct non-absent stage values of the
\* plant's logs as keys, each mapped to the number of the plant's logs that
\* carry it; the counts sum to the number of logs with a non-absent stage,
\* which is at most logs_count.
C10_StageCounts ==
    StatsAnswered =>
        LET logs == IndicesOf(growthlog, req.args.plant_id)
            staged == Carrying(growthlog, logs, "stage")
            counts == resp.body.stages_counts
        IN  /\ DOMAIN counts = {growthlog[i]["stage"][1] : i \in staged}
            /\ \A s \in DOMAIN counts :
                  counts[s] = Cardinality({i \in staged : growthlog[i]["stage"][1] = s})
            /\ SumOfCounts(counts) = Cardinality(staged)
            /\ Cardinality(staged) <= resp.body.logs_count

\* C10 as the code has it: the keys are the non-empty stage texts.
StageCountsOfNonEmpty ==
    StatsAnswered =>
        LET logs == IndicesOf(growthlog, req.args.plant_id)
            staged == {i \in Carrying(growthlog, logs, "stage") :
                          growthlog[i]["stage"][1] # ""}
            counts == resp.body.stages_counts
        IN  /\ DOMAIN counts = {growthlog[i]["stage"][1] : i \in staged}
            /\ \A s \in DOMAIN counts :
                  counts[s] = Cardinality({i \in staged : growthlog[i]["stage"][1] = s})
            /\ SumOfCounts(counts) = Cardinality(staged)
            /\ Cardinality(staged) <= resp.body.logs_count

LatestAnswered == req.op = "latest_sensor_readings" /\ resp.status = 200

\* clamp(limit, 1, 200)
ClampedLimit(limit) ==
    IF limit < 1 THEN 1 ELSE IF limit > MaxLimit THEN MaxLimit ELSE limit

\* C3: for every plant_id and every integer limit, GET /sensor-readings/latest
\* returns at most clamp(limit, 1, 200) entries and at most as many as there
\* are stored readings of the plant.
C3_LatestLength ==
    LatestAnswered =>
        /\ Len(resp.body) <= ClampedLimit(req.args.limit)
        /\ Len(resp.body) <= Cardinality(IndicesOf(sensorreading, req.args.plant_id))

\* C3 witness: more than 200 readings of the plant, limit above 200, and
\* exactly 200 entries returned.
C3_Witness ==
    /\ LatestAnswered
    /\ req.args.limit > MaxLimit
    /\ Cardinality(IndicesOf(sensorreading, req.args.plant_id)) > MaxLimit
    /\ Len(resp.body) = MaxLimit

\* C4: the entries of GET /sensor-readings/latest are readings of the plant,
\* each at most once, in descending order of recorded_at (none counts as
\* datetime.min), and no reading of the plant that was left out is strictly
\* later than a returned one.
C4_LatestNewestFirst ==
    LatestAnswered =>
        LET matching == IndicesOf(sensorreading, req.args.plant_id)
            n == Len(resp.body)
            returned == {resp.body[k]["id"] : k \in 1..n}
            leftOut == {i \in matching : OidStr(sensorreading[i]["_id"]) \notin returned}
            oldest == IF n = 0 THEN DatetimeMin ELSE RecordedKey(resp.body[n])
        IN  /\ Cardinality(returned) = n
            /\ \A k \in 1..n : \E i \in matching :
                  /\ resp.body[k]["id"] = OidStr(sensorreading[i]["_id"])
                  /\ RecordedKey(resp.body[k]) = RecordedKey(sensorreading[i])
            /\ \A k \in 1..(n - 1) :
                  RecordedKey(resp.body[k]) >= RecordedKey(resp.body[k + 1])
            /\ n > 0 => \A i \in leftOut : RecordedKey(sensorreading[i]) <= oldest

\* C4 witness: two readings returned, the later one first, and a reading
\* without recorded_at left out.
C4_Witness ==
    /\ LatestAnswered
    /\ Len(resp.body) = 2
    /\ RecordedKey(resp.body[1]) > RecordedKey(resp.body[2])
    /\ \E i \in IndicesOf(sensorreading, req.args.plant_id) :
          /\ "recorded_at" \notin DOMAIN sensorreading[i]
          /\ \A k \in 1..2 : resp.body[k]["id"] # OidStr(sensorreading[i]["_id"])

\* C5: every id that POST /plants has returned is the id of exactly one
\* document of every later GET /plants result.
C5_CreatedPlantListedOnce ==
    (req.op = "list_plants" /\ resp.status = 200) =>
        \A id \in created :
            Cardinality({k \in 1..Len(resp.body) :
                            "id" \in DOMAIN resp.body[k] /\ resp.body[k]["id"] = id}) = 1

\* C5 witness: a listing after two plants were created.
C5_Witness ==
    /\ req.op = "list_plants"
    /\ resp.status = 200
    /\ Cardinality(created) = 2
    /\ Len(resp.body) = 2

\* a text of 24 hex digits
WellFormedId(text) ==
    /\ Len(text) = 24
    /\ \A i \in 1..Len(text) :
          text[i] \in {"0", "1", "2", "3", "4", "5", "6", "7", "8", "9",
                       "a", "b", "c", "d", "e", "f", "A", "B", "C", "D", "E", "F"}

\* the body breaks the schema of its route: a required field is missing or a
\* number is outside its declared range
OutOfRange(body, key, lo, hi) ==
    /\ key \in DOMAIN body
    /\ body[key] # None
    /\ (body[key][1] < lo \/ body[key][1] > hi)

Negative(body, key) ==
    key \in DOMAIN body /\ body[key] # None /\ body[key][1] < 0

BreaksSchema(op, body) ==
    CASE op = "create_plant" ->
            "name" \notin DOMAIN body \/ "sow_date" \notin DOMAIN body
      [] op = "create_growth_log" ->
            \/ "plant_id" \notin DOMAIN body
            \/ "observed_at" \notin DOMAIN body
            \/ Negative(body, "height_cm")
            \/ Negative(body, "leaves_count")
      [] op = "ingest_sensor_reading" ->
            \/ "plant_id" \notin DOMAIN body
            \/ OutOfRange(body, "humidity_pct", 0, 100)
            \/ OutOfRange(body, "soil_moisture_pct", 0, 100)

CreateOps == {"create_plant", "create_growth_log", "ingest_sensor_reading"}

ReadOps == {"read_root", "test_database", "list_plants", "list_growth_logs",
            "latest_sensor_readings", "plant_stats"}

\* the collection a create route writes
Target(op) ==
    CASE op = "create_plant" -> plant
      [] op = "create_growth_log" -> growthlog
      [] op = "ingest_sensor_reading" -> sensorreading

TargetNext(op) ==
    CASE op = "create_plant" -> plant'
      [] op = "create_growth_log" -> growthlog'
      [] op = "ingest_sensor_reading" -> sensorreading'

C7_InvalidBodyRejected ==
    [][(req'.op \in CreateOps /\ BreaksSchema(req'.op, req'.args.body))
       => /\ resp'.status >= 400
          /\ resp'.status < 500
          /\ UNCHANGED <<plant, growthlog, sensorreading, nextOid>>
      ]_vars

\* C7 witness: a growth log of negative height for a well-formed plant_id was
\* answered 422 while the store was not answering.
C7_Witness ==
    /\ req.op = "create_growth_log"
    /\ "height_cm" \in DOMAIN req.args.body
    /\ req.args.body["height_cm"] = Some(-1)
    /\ "plant_id" \in DOMAIN req.args.body
    /\ WellFormedId(req.args.body["plant_id"])
    /\ ~req.store_ok
    /\ resp.status = 422

\* C8: no plant with an empty name is ever persisted.
C8_NoEmptyPlantName ==
    \A i \in 1..Len(plant) : plant[i]["name"] # ""

IsPrefix(s, t) == Len(s) <= Len(t) /\ SubSeq(t, 1, Len(s)) = s

\* C9: no step removes or changes a persisted document; a step adds at most
\* one document, a create route only to its own collection; the read routes
\* (lists, latest, stats, /, /test) change no collection.
C9_AppendOnly ==
    [][/\ IsPrefix(plant, plant')
       /\ IsPrefix(growthlog, growthlog')
       /\ IsPrefix(sensorreading, sensorreading')
       /\ DocCount' <= DocCount + 1
       /\ req'.op \in CreateOps => Len(TargetNext(req'.op)) + DocCount
                                      = Len(Target(req'.op)) + DocCount'
       /\ req'.op \in ReadOps => UNCHANGED <<plant, growthlog, sensorreading>>
       /\ req'.op \in CreateOps \cup ReadOps
      ]_vars

\* C9 witness: a read route answered on a store of two documents.
C9_Witness ==
    /\ req.op = "plant_stats"
    /\ resp.status = 200
    /\ Len(plant) = 1
    /\ Len(growthlog) = 1

=============================================================================
